---- MODULE Spec2Model ----
(***************************************************************************)
(* Model of the retirement planner: the three calculators (compute_tax,    *)
(* surcharge_for_magi, rmd_for_age) and the year loop of simulate.         *)
(*                                                                         *)
(* Numbers.  The program computes in binary floating point.  The model     *)
(* computes in decimal fixed point:                                        *)
(*   - money is an integer number of mills (1/1000 dollar), so that a      *)
(*     balance can hold a fraction of a cent, as the program's does;       *)
(*   - rates, factors and multipliers are integers in 1/10000 (0.07 is     *)
(*     700, the multiplier 1.03 is 10300); the default                     *)
(*     standard_deduction_growth 0.022222222 is cut to 222;                *)
(*   - RMD divisors are integers in tenths (26.5 is 265);                  *)
(*   - a product or quotient is cut to the unit of its result (floor).     *)
(* round(x, 2) is modelled as what it does: the nearest whole number of    *)
(* cents, ties to even.                                                    *)
(*                                                                         *)
(* Optional values (float | None, int | None, list | None) are sequences   *)
(* of length 0 (None) or 1 (the value).                                    *)
(***************************************************************************)
EXTENDS Integers, Sequences, FiniteSets, TLC

VARIABLES pc, inputs, years, roth_conversions, extra_trad_distributions,
          include_senior_deduction, i, trad, roth, rows, loc, twin, args, ret

vars == <<pc, inputs, years, roth_conversions, extra_trad_distributions,
          include_senior_deduction, i, trad, roth, rows, loc, twin, args, ret>>

-----------------------------------------------------------------------------
(* Units and Python's values *)

None == <<>>
Some(v) == <<v>>
IsNone(o) == Len(o) = 0
Val(o) == o[1]

\* mills per dollar; 1/10000 units per 1 (rates); mills per cent
Dollar == 10 * 100
One == 100 * 100
Cent == Dollar \div 100

Max(a, b) == IF a >= b THEN a ELSE b
Min(a, b) == IF a <= b THEN a ELSE b

\* floor(a * n / d) for n >= 0, d > 0, without leaving 32 bits
MulDiv(a, n, d) == (a \div d) * n + ((a % d) * n) \div d

\* x * r, x in mills and r a rate, factor or multiplier in 1/10000
Times(x, r) == MulDiv(x, r, One)

\* (1.0 + rate) ** n, as a multiplier in 1/10000
RECURSIVE Pow1p(_, _)
Pow1p(rate, n) == IF n <= 0 THEN One ELSE MulDiv(Pow1p(rate, n - 1), One + rate, One)

\* round(x, 2): mills to a whole number of cents, ties to even
Round2(x) ==
    LET q == x \div Cent
        r == x % Cent
    IN  IF 2 * r < Cent THEN q * Cent
        ELSE IF 2 * r > Cent THEN (q + 1) * Cent
        ELSE IF q % 2 = 0 THEN q * Cent ELSE (q + 1) * Cent

\* dict.get(key, 0.0)
DictGet(d, key) == IF key \in DOMAIN d THEN d[key] ELSE 0

-----------------------------------------------------------------------------
(* income_tax.py *)

TaxBracket(s, e, r) == [start |-> s, end |-> e, rate |-> r]

DEFAULT_TAX_BRACKETS ==
    << TaxBracket(0, Some(11925 * Dollar), 1000),
       TaxBracket(11925 * Dollar, Some(48475 * Dollar), 1200),
       TaxBracket(48475 * Dollar, Some(103350 * Dollar), 2200),
       TaxBracket(103350 * Dollar, Some(197300 * Dollar), 2400),
       TaxBracket(197300 * Dollar, Some(250000 * Dollar), 3200),
       TaxBracket(250000 * Dollar, Some(500000 * Dollar), 3500),
       TaxBracket(500000 * Dollar, None, 3700) >>

RECURSIVE TaxLoop(_, _, _, _)

\* mutant: the bracket's lower bound is not subtracted
TaxLoopFromZero(taxable_income, brackets, k, tax) ==
    IF k > Len(brackets) THEN tax
    ELSE LET b == brackets[k]
             top == IF IsNone(b.end) THEN taxable_income
                    ELSE Min(taxable_income, Val(b.end))
         IN  IF taxable_income <= b.start THEN tax
             ELSE TaxLoop(taxable_income, brackets, k + 1, tax + Times(top, b.rate))

\* the loop of compute_tax from bracket k on, tax accumulated so far
TaxLoop(taxable_income, brackets, k, tax) ==
    IF k > Len(brackets) THEN tax
    ELSE LET b == brackets[k]
             lower == b.start
         IN  IF taxable_income <= lower THEN tax
             ELSE LET top == IF IsNone(b.end) THEN taxable_income
                             ELSE Min(taxable_income, Val(b.end))
                      amount_in_bracket == top - lower
                  IN  TaxLoop(taxable_income, brackets, k + 1,
                              IF amount_in_bracket > 0
                              THEN tax + Times(amount_in_bracket, b.rate)
                              ELSE tax)

compute_tax(taxable_income, brackets) ==
    IF taxable_income <= 0 THEN 0 ELSE TaxLoop(taxable_income, brackets, 1, 0)

-----------------------------------------------------------------------------
(* irmaa.py *)

IRMAABracket(s, e, m) == [start |-> s, end |-> e, monthly_surcharge |-> m]

DEFAULT_IRMAA_BRACKETS ==
    << IRMAABracket(0, None, 0),
       IRMAABracket(106011 * Dollar, None, 87700),
       IRMAABracket(133001 * Dollar, None, 220300),
       IRMAABracket(167000 * Dollar, None, 352900),
       IRMAABracket(200001 * Dollar, None, 485500),
       IRMAABracket(500000 * Dollar, None, 529700) >>

\* b.start <= magi <= upper, upper infinite when b.end is None
Contains(b, magi) ==
    /\ b.start <= magi
    /\ (IsNone(b.end) \/ magi <= Val(b.end))

RECURSIVE SurchargeLoop(_, _, _)

\* mutant: a later bracket that contains magi wins over an earlier one
SurchargeLoopLast(magi, brackets, k) ==
    IF k > Len(brackets) THEN <<0, 0>>
    ELSE LET later == SurchargeLoop(magi, brackets, k + 1)
         IN  IF later # <<0, 0>> \/ ~Contains(brackets[k], magi) THEN later
             ELSE <<brackets[k].monthly_surcharge, brackets[k].monthly_surcharge * 12>>

\* the loop of surcharge_for_magi from bracket k on: <<monthly, annual>>
SurchargeLoop(magi, brackets, k) ==
    IF k > Len(brackets) THEN <<0, 0>>
    ELSE IF Contains(brackets[k], magi)
         THEN <<brackets[k].monthly_surcharge, brackets[k].monthly_surcharge * 12>>
         ELSE SurchargeLoop(magi, brackets, k + 1)

surcharge_for_magi(magi, brackets) == SurchargeLoop(magi, brackets, 1)

-----------------------------------------------------------------------------
(* retirement_planner.py: rmd_for_age *)

\* the Uniform Lifetime Table, ages 73..110, divisors in tenths
UNIFORM_LIFETIME_DIVISORS ==
    (73 :> 265) @@ (74 :> 255) @@ (75 :> 246) @@ (76 :> 237) @@ (77 :> 229) @@
    (78 :> 220) @@ (79 :> 211) @@ (80 :> 202) @@ (81 :> 194) @@ (82 :> 185) @@
    (83 :> 177) @@ (84 :> 168) @@ (85 :> 160) @@ (86 :> 152) @@ (87 :> 144) @@
    (88 :> 137) @@ (89 :> 129) @@ (90 :> 122) @@ (91 :> 115) @@ (92 :> 108) @@
    (93 :> 101) @@ (94 :> 95) @@ (95 :> 89) @@ (96 :> 84) @@ (97 :> 78) @@
    (98 :> 73) @@ (99 :> 68) @@ (100 :> 64) @@ (101 :> 60) @@ (102 :> 56) @@
    (103 :> 52) @@ (104 :> 49) @@ (105 :> 46) @@ (106 :> 43) @@ (107 :> 41) @@
    (108 :> 39) @@ (109 :> 37) @@ (110 :> 35)

\* the divisor rmd_for_age divides by, in tenths
Divisor(age) ==
    IF age \in DOMAIN UNIFORM_LIFETIME_DIVISORS
    THEN UNIFORM_LIFETIME_DIVISORS[age]
    ELSE Max(30, 265 - (age - 73) * 8)

\* mutant: the first RMD is due the year after rmd_start_age
RmdAfterStartAge(age, balance, rmd_start_age) ==
    IF age <= rmd_start_age THEN 0
    ELSE MulDiv(balance, 10, Divisor(age))

rmd_for_age(age, balance, rmd_start_age) ==
    IF age < rmd_start_age THEN 0
    ELSE MulDiv(balance, 10, Divisor(age))

-----------------------------------------------------------------------------
(* retirement_planner.py: PlannerInputs, PlannerRow, simulate *)

\* PlannerInputs with the dataclass's defaults
PlannerInputs(start_year, start_age, start_trad_ira) ==
    [ start_year |-> start_year,
      start_age |-> start_age,
      start_trad_ira |-> start_trad_ira,
      start_roth_ira |-> 0,
      investment_return |-> 700,
      inflation_rate |-> 300,
      start_standard_deduction |-> 15750 * Dollar,
      standard_deduction_growth |-> 222,
      start_senior_deduction |-> 4530 * Dollar,
      other_income |-> 7000 * Dollar,
      start_ssa |-> 40000 * Dollar,
      ssa_factor |-> 8800,
      start_living_expenses |-> 65000 * Dollar,
      ltc_start_year |-> Some(2038),
      ltc_start_cost |-> 100000 * Dollar,
      rmd_start_age |-> 73,
      tax_brackets |-> None,
      irmaa_brackets |-> None ]

\* Python's truth value of an int | None and of a list | None
TruthyInt(o) == ~IsNone(o) /\ Val(o) # 0
TruthyList(o) == ~IsNone(o) /\ Len(Val(o)) > 0

\* inputs.tax_brackets or DEFAULT_TAX_BRACKETS
TaxTable(inp) ==
    IF TruthyList(inp.tax_brackets) THEN Val(inp.tax_brackets) ELSE DEFAULT_TAX_BRACKETS

\* inputs.irmaa_brackets or DEFAULT_IRMAA_BRACKETS
IrmaaTable(inp) ==
    IF TruthyList(inp.irmaa_brackets) THEN Val(inp.irmaa_brackets)
    ELSE DEFAULT_IRMAA_BRACKETS

\* mutant: the traditional balance is clamped at 0
TradNextClamped(trad0, trad_growth, rmd, roth_conv, extra_dist) ==
    Max(0, trad0 + trad_growth - rmd - roth_conv - extra_dist)

\* trad_next = trad + trad_growth - rmd - roth_conv - extra_dist
TradNext(trad0, trad_growth, rmd, roth_conv, extra_dist) ==
    trad0 + trad_growth - rmd - roth_conv - extra_dist

\* roth_next = roth + roth_growth + roth_conv
RothNext(roth0, roth_growth, roth_conv) == roth0 + roth_growth + roth_conv

\* mutant: no floor under AGI
AgiNoFloor(other_income, ssa, rmd, roth_conv, extra_dist) ==
    other_income + ssa + rmd + roth_conv + extra_dist

\* agi = max(0.0, other_income + ssa + rmd + roth_conv + extra_dist)
Agi(other_income, ssa, rmd, roth_conv, extra_dist) ==
    Max(0, other_income + ssa + rmd + roth_conv + extra_dist)

\* senior_ded = start_senior_deduction if include_senior_deduction and age >= 65 else 0.0
SeniorDed(inp, include, age) ==
    IF include /\ age >= 65 THEN inp.start_senior_deduction ELSE 0

\* taxable = max(0.0, agi - std_ded - senior_ded)
Taxable(agi, std_ded, senior_ded) == Max(0, agi - std_ded - senior_ded)

\* living expenses of the year, with the LTC cost from its onset year on
Living(inp, year, inflation_n) ==
    LET living == Times(inp.start_living_expenses, inflation_n)
    IN  IF TruthyInt(inp.ltc_start_year) /\ year >= Val(inp.ltc_start_year)
        THEN living + Times(inp.ltc_start_cost, inflation_n)
        ELSE living

\* amt_from_roth = max(0.0, living - net_income)
AmtFromRoth(living, net_income) == Max(0, living - net_income)

\* mutant: the shortfall comes off the traditional balance
CarryFromTrad(trad_next, roth_next, amt_from_roth) ==
    [trad |-> trad_next - amt_from_roth, roth |-> roth_next]

\* the balances after "roth_next -= amt_from_roth": what the next iteration starts from
Carry(trad_next, roth_next, amt_from_roth) ==
    [trad |-> trad_next, roth |-> roth_next - amt_from_roth]

\* mutant: the row holds the balance cut to cents, not rounded
RowBalanceCut(x) == (x \div Cent) * Cent

\* a balance as PlannerRow holds it: round(x, 2)
RowBalance(x) == Round2(x)

\* mutant: years counted from 1
YearOfFromOne(inp, idx) == inp.start_year + idx + 1

\* year = inputs.start_year + i
YearOf(inp, idx) == inp.start_year + idx

\* age = inputs.start_age + i
AgeOf(inp, idx) == inp.start_age + idx

\* the body of the loop for index idx, from balances trad0 and roth0: its locals
Iteration(inp, convs, extras, include, idx, trad0, roth0) ==
    LET year == YearOf(inp, idx)
        age == AgeOf(inp, idx)
        inflation_n == Pow1p(inp.inflation_rate, idx)
        ssa == Times(Times(inp.start_ssa, inflation_n), inp.ssa_factor)
        other_income == inp.other_income
        trad_growth == Times(trad0, inp.investment_return)
        roth_growth == Times(roth0, inp.investment_return)
        rmd == rmd_for_age(age, trad0, inp.rmd_start_age)
        roth_conv == DictGet(convs, year)
        extra_dist == DictGet(extras, year)
        trad_next == TradNext(trad0, trad_growth, rmd, roth_conv, extra_dist)
        roth_mid == RothNext(roth0, roth_growth, roth_conv)
        agi == Agi(other_income, ssa, rmd, roth_conv, extra_dist)
        std_ded == Times(inp.start_standard_deduction,
                         Pow1p(inp.standard_deduction_growth, idx))
        senior_ded == SeniorDed(inp, include, age)
        taxable == Taxable(agi, std_ded, senior_ded)
        tax == compute_tax(taxable, TaxTable(inp))
        magi == agi
        irmaa_annual == surcharge_for_magi(magi, IrmaaTable(inp))[2]
        net_income == agi - tax - irmaa_annual
        living == Living(inp, year, inflation_n)
        amt_from_roth == AmtFromRoth(living, net_income)
        next == Carry(trad_next, roth_mid, amt_from_roth)
    IN  [ year |-> year, age |-> age, inflation_n |-> inflation_n, ssa |-> ssa,
          trad_start |-> trad0, roth_start |-> roth0,
          trad_growth |-> trad_growth, roth_growth |-> roth_growth, rmd |-> rmd,
          roth_conv |-> roth_conv, extra_dist |-> extra_dist,
          trad_next |-> next.trad, roth_next |-> next.roth,
          agi |-> agi, std_ded |-> std_ded, senior_ded |-> senior_ded,
          taxable |-> taxable, tax |-> tax, magi |-> magi,
          irmaa_annual |-> irmaa_annual, net_income |-> net_income,
          living |-> living, amt_from_roth |-> amt_from_roth ]

\* the PlannerRow built from the locals of an iteration
PlannerRow(l) ==
    [ year |-> l.year, age |-> l.age,
      trad_ira |-> RowBalance(l.trad_next), roth_ira |-> RowBalance(l.roth_next),
      rmd |-> Round2(l.rmd), roth_conversion |-> Round2(l.roth_conv),
      extra_trad_dist |-> Round2(l.extra_dist), ssa |-> Round2(l.ssa),
      agi |-> Round2(l.agi), std_deduction |-> Round2(l.std_ded),
      senior_deduction |-> Round2(l.senior_ded),
      taxable_income |-> Round2(l.taxable), tax |-> Round2(l.tax),
      magi |-> Round2(l.magi), irmaa_annual |-> Round2(l.irmaa_annual),
      living_expenses |-> Round2(l.living),
      amt_from_roth |-> Round2(l.amt_from_roth),
      net_income |-> Round2(l.net_income) ]

-----------------------------------------------------------------------------
(* Bounds and the inputs the runs are drawn from *)

\* simulate is called with years in 0..MaxYears
MaxYears == 3
\* rmd_for_age is called with ages in 60..MaxAge
MaxAge == 113

StartYear == 2025
\* <<start_age, rmd_start_age>>: senior deduction, first RMD and the end of the
\* divisor table are each crossed by a run
Ages == { <<63, 73>>, <<71, 73>>, <<71, 70>>, <<109, 73>> }
\* <<start_trad_ira, start_roth_ira>>
StartBalances == { <<1000000 * Dollar, 100000 * Dollar>>, <<1234567, 0>> }
LtcStartYears == {None, Some(0), Some(StartYear + 1), Some(2038)}

\* a one-bracket schedule, 20% of everything
FlatTax == << TaxBracket(0, None, 2000) >>
\* a short schedule with a 0% first bracket
SmallTax ==
    << TaxBracket(0, Some(10000 * Dollar), 0),
       TaxBracket(10000 * Dollar, Some(40000 * Dollar), 1000),
       TaxBracket(40000 * Dollar, None, 2550) >>
TaxTables == {DEFAULT_TAX_BRACKETS, FlatTax, SmallTax}

\* an IRMAA schedule with bounded brackets that do not share a boundary
DisjointIrmaa ==
    << IRMAABracket(0, Some(40000 * Dollar), 0),
       IRMAABracket(40001 * Dollar, Some(90000 * Dollar), 87700),
       IRMAABracket(90001 * Dollar, None, 220300) >>
\* an IRMAA schedule whose brackets are contiguous (each start is the previous end)
ContiguousIrmaa ==
    << IRMAABracket(0, Some(40000 * Dollar), 0),
       IRMAABracket(40000 * Dollar, Some(90000 * Dollar), 87700),
       IRMAABracket(90000 * Dollar, None, 220300) >>
IrmaaTables == {DEFAULT_IRMAA_BRACKETS, DisjointIrmaa, ContiguousIrmaa}

\* the override maps: none, the example's, and a negative amount
ConversionMaps == { <<>>, (StartYear :> 10000 * Dollar), (StartYear + 1 :> -200000 * Dollar) }
ExtraMaps ==
    { <<>>,
      (StartYear :> 42500 * Dollar) @@ (StartYear + 1 :> 44000 * Dollar)
          @@ (StartYear + 2 :> 5000 * Dollar) }

\* the living-expense settings of the second run: no expenses at all
TwinLiving == [start_living_expenses |-> 0, ltc_start_year |-> None, ltc_start_cost |-> 0]

\* <<tax_brackets, irmaa_brackets>>
Schedules ==
    { <<None, None>>, <<None, Some(<<>>)>>, <<Some(SmallTax), Some(DisjointIrmaa)>> }

InputChoices ==
    { [ PlannerInputs(StartYear, a[1], b[1]) EXCEPT
          !.start_roth_ira = b[2], !.rmd_start_age = a[2], !.ltc_start_year = l,
          !.tax_brackets = sch[1], !.irmaa_brackets = sch[2] ] :
        a \in Ages, b \in StartBalances, l \in LtcStartYears, sch \in Schedules }

\* every bound of a schedule, and a mill to either side
Around(x) == {x - 1, x, x + 1}
BoundsOf(T) ==
    UNION { Around(T[k].start) \cup (IF IsNone(T[k].end) THEN {} ELSE Around(Val(T[k].end))) :
            k \in 1..Len(T) }
TaxIncomes == {-5 * Dollar, 600000 * Dollar} \cup UNION { BoundsOf(T) : T \in TaxTables }
Magis == {40000 * Dollar + 500, 95000 * Dollar} \cup UNION { BoundsOf(T) : T \in IrmaaTables }
Balances == {0, 1234567, 1000000 * Dollar, -5000 * Dollar}

-----------------------------------------------------------------------------
(* The program: one call of simulate, or one call of a calculator *)

NoArgs == [fn |-> "simulate"]
NoLoc == [year |-> -1]

\* the variables of simulate while a calculator is called on its own
SimIdle ==
    /\ inputs = PlannerInputs(StartYear, 71, 0)
    /\ years = 0
    /\ roth_conversions = <<>>
    /\ extra_trad_distributions = <<>>
    /\ include_senior_deduction = TRUE
    /\ i = 0 /\ trad = 0 /\ roth = 0 /\ rows = <<>> /\ loc = NoLoc
    /\ twin = [trad |-> 0, roth |-> 0]

\* simulate(inputs, years, roth_conversions, extra_trad_distributions, include_...)
\* entered: rows = [], trad and roth the starting balances
InitSimulate ==
    /\ pc = "simulate"
    /\ inputs \in InputChoices
    /\ years \in 0..MaxYears
    /\ roth_conversions \in ConversionMaps
    /\ extra_trad_distributions \in ExtraMaps
    /\ include_senior_deduction \in BOOLEAN
    /\ i = 0
    /\ trad = inputs.start_trad_ira
    /\ roth = inputs.start_roth_ira
    /\ rows = <<>>
    /\ loc = NoLoc
    /\ twin = [trad |-> inputs.start_trad_ira, roth |-> inputs.start_roth_ira]
    /\ args = NoArgs
    /\ ret = <<>>

InitComputeTax ==
    /\ pc = "compute_tax"
    /\ \E t \in TaxIncomes, B \in TaxTables :
          args = [fn |-> "compute_tax", taxable_income |-> t, brackets |-> B]
    /\ ret = <<>>
    /\ SimIdle

InitSurcharge ==
    /\ pc = "surcharge_for_magi"
    /\ \E m \in Magis, B \in IrmaaTables :
          args = [fn |-> "surcharge_for_magi", magi |-> m, brackets |-> B]
    /\ ret = <<>>
    /\ SimIdle

InitRmd ==
    /\ pc = "rmd_for_age"
    /\ \E a \in 60..MaxAge, b \in Balances, s \in {70, 73, 75} :
          args = [fn |-> "rmd_for_age", age |-> a, balance |-> b, rmd_start_age |-> s]
    /\ ret = <<>>
    /\ SimIdle

Init == InitSimulate \/ InitComputeTax \/ InitSurcharge \/ InitRmd

\* the inputs of the second run: the same, but for the living-expense settings
TwinInputs ==
    [ inputs EXCEPT !.start_living_expenses = TwinLiving.start_living_expenses,
                    !.ltc_start_year = TwinLiving.ltc_start_year,
                    !.ltc_start_cost = TwinLiving.ltc_start_cost ]

\* mutant: the loop runs once more
LoopRunsInclusive == i <= years

\* "for i in range(years)" has another index to run
LoopRuns == i < years

\* one iteration of "for i in range(years)"
Step ==
    /\ pc = "simulate"
    /\ LoopRuns
    /\ LET l == Iteration(inputs, roth_conversions, extra_trad_distributions,
                          include_senior_deduction, i, trad, roth)
           t == Iteration(TwinInputs, roth_conversions, extra_trad_distributions,
                          include_senior_deduction, i, twin.trad, twin.roth)
       IN  /\ loc' = l
           /\ rows' = Append(rows, PlannerRow(l))
           /\ trad' = l.trad_next
           /\ roth' = l.roth_next
           /\ twin' = [twin EXCEPT !.trad = t.trad_next, !.roth = t.roth_next]
    /\ i' = i + 1
    /\ UNCHANGED <<pc, inputs, years, roth_conversions, extra_trad_distributions,
                   include_senior_deduction, args, ret>>

\* range(years) is exhausted: return rows
Return ==
    /\ pc = "simulate"
    /\ ~LoopRuns
    /\ pc' = "done"
    /\ ret' = rows
    /\ UNCHANGED <<inputs, years, roth_conversions, extra_trad_distributions,
                   include_senior_deduction, i, trad, roth, rows, loc, twin, args>>

SimUnchanged ==
    UNCHANGED <<inputs, years, roth_conversions, extra_trad_distributions,
                include_senior_deduction, i, trad, roth, rows, loc, twin, args>>

CallComputeTax ==
    /\ pc = "compute_tax"
    /\ ret' = compute_tax(args.taxable_income, args.brackets)
    /\ pc' = "done"
    /\ SimUnchanged

CallSurcharge ==
    /\ pc = "surcharge_for_magi"
    /\ ret' = surcharge_for_magi(args.magi, args.brackets)
    /\ pc' = "done"
    /\ SimUnchanged

CallRmd ==
    /\ pc = "rmd_for_age"
    /\ ret' = rmd_for_age(args.age, args.balance, args.rmd_start_age)
    /\ pc' = "done"
    /\ SimUnchanged

Next == Step \/ Return \/ CallComputeTax \/ CallSurcharge \/ CallRmd

Spec == Init /\ [][Next]_vars

-----------------------------------------------------------------------------
(* Claims *)

\* a call of simulate has run at least one iteration: loc holds its locals
Iterated == args.fn = "simulate" /\ i > 0
\* a call of the named calculator has returned
Returned(fn) == pc = "done" /\ args.fn = fn

\* C1: for every bracket k of the schedule, surcharge_for_magi at a magi equal to
\* bracket k's start returns bracket k's monthly surcharge and 12 times it.
C1_LowerBoundIsOwnBracket ==
    Returned("surcharge_for_magi") =>
        \A k \in 1..Len(args.brackets) :
            args.magi = args.brackets[k].start =>
                ret = << args.brackets[k].monthly_surcharge,
                         args.brackets[k].monthly_surcharge * 12 >>

\* C2 as stated: the balances iteration i > 0 starts from are exactly the trad_ira
\* and roth_ira emitted in the row of iteration i-1.
C2_StartEqualsEmitted ==
    (pc = "simulate" /\ 0 < i /\ i < years) =>
        /\ trad = rows[i].trad_ira
        /\ roth = rows[i].roth_ira

\* C2 amended: the balances iteration i > 0 starts from, rounded to cents, are the
\* trad_ira and roth_ira emitted in the row of iteration i-1, so the two agree to
\* within half a cent.
C2_EmittedIsRoundedStart ==
    (pc = "simulate" /\ 0 < i /\ i < years) =>
        /\ rows[i].trad_ira = Round2(trad)
        /\ rows[i].roth_ira = Round2(roth)
        /\ 2 * (trad - rows[i].trad_ira) \in -Cent..Cent
        /\ 2 * (roth - rows[i].roth_ira) \in -Cent..Cent

\* an iteration is about to start from a balance that is no whole number of cents
C2_Witness ==
    /\ pc = "simulate" /\ 0 < i /\ i < years
    /\ trad # rows[i].trad_ira
    /\ rows[i].trad_ira = Round2(trad)

\* C3: every iteration takes the traditional balance from its start value b to
\* b + b*investment_return - rmd_for_age(age, b) - conversion - extra distribution,
\* the overrides being 0 for a year with no entry, with no clamp at 0; from
\* 1,000,000 at age 71 (return 0.07, first RMD at 73) with 10,000 converted and
\* 42,500 distributed it is 1,017,500.
C3_TradRecurrence ==
    [][ i' = i + 1 =>
          /\ trad' = trad + Times(trad, inputs.investment_return)
                       - rmd_for_age(inputs.start_age + i, trad, inputs.rmd_start_age)
                       - (IF inputs.start_year + i \in DOMAIN roth_conversions
                          THEN roth_conversions[inputs.start_year + i] ELSE 0)
                       - (IF inputs.start_year + i \in DOMAIN extra_trad_distributions
                          THEN extra_trad_distributions[inputs.start_year + i] ELSE 0)
          /\ ( /\ trad = 1000000 * Dollar /\ inputs.start_age + i = 71
               /\ inputs.investment_return = 700 /\ inputs.rmd_start_age = 73
               /\ DictGet(roth_conversions, inputs.start_year + i) = 10000 * Dollar
               /\ DictGet(extra_trad_distributions, inputs.start_year + i) = 42500 * Dollar
               => trad' = 1017500 * Dollar /\ rows'[i'].trad_ira = 1017500 * Dollar ) ]_vars

\* the example's first year has run
C3_Witness ==
    /\ Iterated /\ i = 1
    /\ loc.trad_start = 1000000 * Dollar /\ loc.age = 71
    /\ inputs.rmd_start_age = 73 /\ loc.rmd = 0
    /\ loc.roth_conv = 10000 * Dollar /\ loc.extra_dist = 42500 * Dollar
    /\ trad = 1017500 * Dollar

\* C4 as stated: when ltc_start_year is set (not None), the living expenses of an
\* iteration include the LTC term exactly when its year >= ltc_start_year.
C4_LtcFromOnsetYear ==
    (Iterated /\ ~IsNone(inputs.ltc_start_year)) =>
        LET base == Times(inputs.start_living_expenses, loc.inflation_n)
            ltc == Times(inputs.ltc_start_cost, loc.inflation_n)
        IN  /\ loc.year >= Val(inputs.ltc_start_year) <=> loc.living = base + ltc
            /\ loc.year < Val(inputs.ltc_start_year) <=> loc.living = base
            /\ rows[i].living_expenses = Round2(loc.living)

\* C4, supporting: for the onset years Python holds true (not None and not 0) the
\* living expenses include the LTC term exactly from the onset year on.
C4_LtcFromNonzeroOnsetYear ==
    (Iterated /\ ~IsNone(inputs.ltc_start_year) /\ Val(inputs.ltc_start_year) # 0) =>
        C4_LtcFromOnsetYear

\* C5: a call of simulate ends (until it has returned, either the loop has an index
\* left to run or the return can be taken, and every step either uses up one of the
\* `years` indices or returns), returning exactly `years` rows, row k (from 1) with
\* year start_year + k - 1 and age start_age + k - 1; a row once appended stays as
\* it is.
C5_RowsPerYear ==
    /\ [](Returned("simulate") =>
            /\ Len(ret) = years
            /\ \A k \in 1..Len(ret) :
                  /\ ret[k].year = inputs.start_year + (k - 1)
                  /\ ret[k].age = inputs.start_age + (k - 1))
    /\ []((args.fn = "simulate" /\ pc # "done") =>
            (i <= years /\ (LoopRuns \/ ENABLED Return)))
    /\ [][ /\ Len(rows') >= Len(rows)
           /\ SubSeq(rows', 1, Len(rows)) = rows
           /\ args.fn = "simulate" =>
                 \/ (i' = i + 1 /\ i' <= years /\ Len(rows') = i')
                 \/ pc' = "done" ]_vars

\* a call of simulate has returned MaxYears rows
C5_Witness == Returned("simulate") /\ years = MaxYears /\ Len(ret) = MaxYears

\* ascending, contiguous, last bracket unbounded and only it, rates >= 0
WellFormed(B) ==
    /\ Len(B) > 0
    /\ B[1].start = 0
    /\ IsNone(B[Len(B)].end)
    /\ \A k \in 1..Len(B) : B[k].rate >= 0
    /\ \A k \in 1..(Len(B) - 1) :
          /\ ~IsNone(B[k].end)
          /\ B[k].start < Val(B[k].end)
          /\ B[k + 1].start = Val(B[k].end)

\* the sum over brackets 1..k of (upper - lower) * rate
RECURSIVE FullBrackets(_, _)
FullBrackets(B, k) ==
    IF k = 0 THEN 0
    ELSE FullBrackets(B, k - 1) + Times(Val(B[k].end) - B[k].start, B[k].rate)

\* C6: on a well-formed schedule compute_tax is non-decreasing in taxable_income
\* (no smaller income owes more), and at the upper bound of bracket k it is the
\* sum over brackets 1..k of (upper - lower) * rate.
C6_MarginalTax ==
    (Returned("compute_tax") /\ WellFormed(args.brackets)) =>
        /\ \A t \in TaxIncomes :
              t <= args.taxable_income => compute_tax(t, args.brackets) <= ret
        /\ \A k \in 1..(Len(args.brackets) - 1) :
              args.taxable_income = Val(args.brackets[k].end) =>
                  ret = FullBrackets(args.brackets, k)

\* compute_tax has returned the tax at the upper bound of a second bracket
C6_Witness ==
    /\ Returned("compute_tax") /\ Len(args.brackets) > 2
    /\ args.taxable_income = Val(args.brackets[2].end)
    /\ ret = FullBrackets(args.brackets, 2) /\ ret > 0

\* C7: rmd_for_age returns 0 below rmd_start_age; from rmd_start_age on it returns
\* balance / divisor, the divisor being the table's for ages 73..110 (26.5 at 73,
\* 3.5 at 110) and max(3.0, 26.5 - 0.8*(age - 73)) for any other age, hence >= 3.0.
C7_RmdDivisor ==
    Returned("rmd_for_age") =>
        LET d == IF args.age \in 73..110 THEN UNIFORM_LIFETIME_DIVISORS[args.age]
                 ELSE IF 265 - 8 * (args.age - 73) >= 30
                      THEN 265 - 8 * (args.age - 73) ELSE 30
        IN  /\ DOMAIN UNIFORM_LIFETIME_DIVISORS = 73..110
            /\ UNIFORM_LIFETIME_DIVISORS[73] = 265
            /\ UNIFORM_LIFETIME_DIVISORS[110] = 35
            /\ d >= 30
            /\ args.age < args.rmd_start_age => ret = 0
            /\ args.age >= args.rmd_start_age =>
                  ret = (args.balance \div d) * 10 + ((args.balance % d) * 10) \div d

\* rmd_for_age has returned for an age past the table, where the floor applies
C7_Witness ==
    /\ Returned("rmd_for_age") /\ args.age > 110 /\ args.balance = 1000000 * Dollar
    /\ ret = 333333333

\* C8: in every iteration net_income = AGI - tax - annual IRMAA and the shortfall is
\* max(0, living - net_income); all of it comes off the Roth balance after growth
\* and conversion were added (no clamp), none off the traditional balance: the
\* traditional balance is that of the run with no living expenses at all.
C8_ShortfallFromRoth ==
    Iterated =>
        /\ loc.net_income = loc.agi - loc.tax - loc.irmaa_annual
        /\ loc.amt_from_roth =
              (IF loc.living - loc.net_income > 0 THEN loc.living - loc.net_income ELSE 0)
        /\ roth = loc.roth_start + Times(loc.roth_start, inputs.investment_return)
                     + loc.roth_conv - loc.amt_from_roth
        /\ trad = twin.trad

\* an iteration has drawn a shortfall from a Roth balance that went negative, and
\* the run without living expenses has the same traditional balance
C8_Witness ==
    /\ Iterated /\ loc.amt_from_roth > 0 /\ roth < 0
    /\ twin.roth > roth /\ trad = twin.trad /\ trad # 0

\* C9: in every iteration AGI = max(0, other_income + benefit + RMD + conversion +
\* extra distribution), the senior deduction is start_senior_deduction exactly when
\* include_senior_deduction and age >= 65 and else 0, taxable income =
\* max(AGI - standard deduction - senior deduction, 0); the row's agi and
\* taxable_income are >= 0.
C9_AgiAndTaxable ==
    Iterated =>
        LET sum == inputs.other_income + loc.ssa + loc.rmd + loc.roth_conv + loc.extra_dist
            rest == loc.agi - loc.std_ded - loc.senior_ded
        IN  /\ loc.agi = (IF sum > 0 THEN sum ELSE 0)
            /\ loc.senior_ded =
                  (IF include_senior_deduction /\ loc.age >= 65
                   THEN inputs.start_senior_deduction ELSE 0)
            /\ loc.taxable = (IF rest > 0 THEN rest ELSE 0)
            /\ rows[i].agi = Round2(loc.agi) /\ rows[i].agi >= 0
            /\ rows[i].taxable_income = Round2(loc.taxable)
            /\ rows[i].taxable_income >= 0
            /\ rows[i].senior_deduction = loc.senior_ded

\* an iteration whose income components sum to less than 0 has AGI 0
C9_Witness ==
    /\ Iterated
    /\ inputs.other_income + loc.ssa + loc.rmd + loc.roth_conv + loc.extra_dist < 0
    /\ loc.agi = 0 /\ rows[i].taxable_income = 0

\* C10: with no irmaa_brackets override, or an empty one, every row has
\* irmaa_annual = 0 whatever its MAGI.
C10_DefaultIrmaaIsZero ==
    (args.fn = "simulate"
        /\ (IsNone(inputs.irmaa_brackets) \/ Val(inputs.irmaa_brackets) = <<>>)) =>
        \A k \in 1..Len(rows) : rows[k].irmaa_annual = 0

\* an iteration under the built-in schedule with MAGI above its second bracket's
\* start, and surcharge 0
C10_Witness ==
    /\ Iterated /\ IsNone(inputs.irmaa_brackets)
    /\ loc.magi >= DEFAULT_IRMAA_BRACKETS[2].start
    /\ rows[i].magi = Round2(loc.magi) /\ rows[i].irmaa_annual = 0

====
